---- MODULE Spec2Model ----
(***************************************************************************)
(* Model of registry-monitor (src/monitor.go): the main goroutine          *)
(* (flag validation, runMonitor, ListenAndServe), the mainLoop goroutine   *)
(* (one probe cycle after another) and the HTTP handlers /health and       *)
(* /status, which read the package-level flags healthy and status while    *)
(* mainLoop writes them.                                                   *)
(*                                                                         *)
(* Every access to healthy or status is one step of the goroutine that     *)
(* makes it: the flags are plain bool variables, so a handler's two reads  *)
(* of a flag are two steps and mainLoop may write between them.            *)
(***************************************************************************)
EXTENDS Integers, Sequences, FiniteSets

(* ---- bounds ----------------------------------------------------------- *)
\* Number of request-serving goroutines that may be in flight at once.
NumHandlers == 1
\* Number of probe cycles that may record an outcome (caps the counters).
MaxCycles == 2
\* Longest image history returned by the engine.
MaxHistory == 2

Handlers == 1..NumHandlers

(* ---- time.ParseDuration ------------------------------------------------ *)
\* A duration string is a sequence of <number><unit> terms: "1m30s" is
\* <<[n |-> 1, u |-> "m"], [n |-> 30, u |-> "s"]>>; "" is <<>>.
UnitSeconds == [s |-> 1, m |-> 60, h |-> 3600]

Term(n, u) == [n |-> n, u |-> u]

\* Values of -run-test-every that are tried: the default "2m", "5m", "30s"
\* and "2x", which has no valid unit.
TestIntervals ==
  { <<Term(2, "m")>>, <<Term(5, "m")>>, <<Term(30, "s")>>, <<Term(2, "x")>> }

RECURSIVE SumTerms(_)
SumTerms(str) ==
  IF str = <<>> THEN 0
  ELSE Head(str).n * UnitSeconds[Head(str).u] + SumTerms(Tail(str))

\* time.ParseDuration: err (ok = FALSE) on "" or on a term with an unknown
\* unit, else the sum of the terms in seconds.
ParseDuration(str) ==
  IF str = <<>> \/ \E i \in 1..Len(str) : str[i].u \notin DOMAIN UnitSeconds
  THEN [ok |-> FALSE, d |-> 0]
  ELSE [ok |-> TRUE, d |-> SumTerms(str)]

(* ---- state -------------------------------------------------------------- *)
VARIABLES
  username, password, registryHost, repository,   \* required flags
  baseImage, baseLayer,                           \* base selectors
  testInterval,                                   \* -run-test-every
  awsAccessKey,                                   \* CloudWatch credentials
  proc,            \* "running", "exit1" (os.Exit(1), log.Fatal), "panic"
  mainPc,          \* position of the main goroutine
  grabID,          \* main's local: the history read at line 457
  healthy, status, \* the shared flags
  pc,              \* position of the mainLoop goroutine
  firstLoop, duration, userDuration, cloudwatchService,  \* runMonitor locals
  base,
  ret,             \* result of the last probe step function called
  lastSleep,       \* argument of the last time.Sleep call, 0 if none
  promSuccessMetric, promFailureMetric,           \* local counters
  imageHistory,    \* deleteTopLayer's local: what History returned (line 328)
  removed,         \* the IDs passed to images.Remove, in call order
  tagErr,          \* the engine call of createTagLayer that failed last
  sleeps,          \* number of time.Sleep calls made
  cwLast,          \* outcome of the cycle's last putCloudWatchMetric call
  handler          \* per handler goroutine: position and response

flags == <<username, password, registryHost, repository, baseImage,
           baseLayer, testInterval, awsAccessKey>>
mainVars == <<proc, mainPc, grabID>>
sharedVars == <<healthy, status>>
stepVars == <<imageHistory, removed, tagErr, sleeps, cwLast>>
monVars == <<pc, firstLoop, duration, userDuration, cloudwatchService, base,
             ret, lastSleep, promSuccessMetric, promFailureMetric, stepVars>>
vars == <<flags, mainVars, sharedVars, monVars, handler>>

\* Identifiers the engine returns in an image history.
HistoryIDs == {"sha-a", "sha-b"}

\* The value of imageHistory outside deleteTopLayer.
NoHistory == [err |-> FALSE, list |-> <<>>]

\* The response of a handler that has not answered yet.
NoResponse == [path |-> "", code |-> 0, body |-> ""]

\* Flag defaults (flag.String(..., default, ...)) and zero values of the
\* package-level variables, before main runs.
Init ==
  /\ username = "" /\ password = "" /\ registryHost = "" /\ repository = ""
  /\ baseImage = "" /\ baseLayer = ""
  /\ testInterval = <<Term(2, "m")>>
  /\ awsAccessKey = ""
  /\ proc = "running"
  /\ mainPc = "init"
  /\ grabID = <<>>
  /\ healthy = FALSE
  /\ status = FALSE
  /\ pc = "NotStarted"
  /\ firstLoop = FALSE
  /\ duration = 0
  /\ userDuration = 0
  /\ cloudwatchService = "nil"
  /\ base = ""
  /\ ret = FALSE
  /\ lastSleep = 0
  /\ promSuccessMetric = 0
  /\ promFailureMetric = 0
  /\ imageHistory = NoHistory
  /\ removed = <<>>
  /\ tagErr = "none"
  /\ sleeps = 0
  /\ cwLast = "none"
  /\ handler = [h \in Handlers |-> [pc |-> "idle", resp |-> NoResponse]]

(* ---- main goroutine ------------------------------------------------------ *)
\* func init(): newPodmanClient fails -> log.Fatalf.
initPodman ==
  /\ proc = "running" /\ mainPc = "init"
  /\ \E ok \in BOOLEAN :
       IF ok THEN mainPc' = "parse" /\ proc' = proc
       ELSE mainPc' = mainPc /\ proc' = "exit1"
  /\ UNCHANGED <<flags, grabID, sharedVars, monVars, handler>>

\* main, lines 416-435: the flags are parsed from the command line and the
\* environment; a parse error exits with status 1.
ParseFlags ==
  /\ proc = "running" /\ mainPc = "parse"
  /\ \/ /\ username' \in {"", "user"}
        /\ password' \in {"", "secret"}
        /\ registryHost' \in {"", "quay.io"}
        /\ repository' \in {"", "app"}
        /\ baseImage' \in {"", "busybox"}
        /\ baseLayer' \in {"", "layer1"}
        /\ testInterval' \in TestIntervals
        /\ awsAccessKey' \in {"", "AK"}
        /\ mainPc' = "validate"
        /\ proc' = proc
     \/ /\ proc' = "exit1"
        /\ UNCHANGED <<flags, mainPc>>
  /\ UNCHANGED <<grabID, sharedVars, monVars, handler>>

\* images.History(podmanContext, *repository, ...) at line 457: an error, or
\* a list of history entries (possibly empty), one per layer of the image:
\* no ID occurs twice in a list.
HistoryEntries == [ID : HistoryIDs, latest : BOOLEAN]
Histories ==
  { l \in UNION { [1..n -> HistoryEntries] : n \in 0..MaxHistory } :
      \A i, j \in 1..Len(l) : l[i].ID = l[j].ID => i = j }

\* The mutant of validate: the check of line 464 is missing.
validateNoBothCheck ==
  /\ proc = "running" /\ mainPc = "validate"
  /\ IF username = "" \/ password = "" \/ registryHost = "" \/ repository = ""
     THEN proc' = "exit1" /\ UNCHANGED <<grabID, mainPc>>
     ELSE IF baseImage = "" /\ baseLayer = ""
     THEN \/ proc' = "exit1" /\ UNCHANGED <<grabID, mainPc>>
          \/ /\ grabID' \in Histories
             /\ mainPc' = "assign"
             /\ proc' = proc
     ELSE mainPc' = "register" /\ UNCHANGED <<grabID, proc>>
  /\ UNCHANGED <<flags, sharedVars, monVars, handler>>

\* main, lines 437-461 and 464-466: the required flags, then the base
\* selectors; with neither selector the history of the repository is read.
validate ==
  /\ proc = "running" /\ mainPc = "validate"
  /\ IF username = "" \/ password = "" \/ registryHost = "" \/ repository = ""
     THEN \* log.Fatalln("Missing ... flag")
          proc' = "exit1" /\ UNCHANGED <<grabID, mainPc>>
     ELSE IF baseImage = "" /\ baseLayer = ""
     THEN \/ \* History failed: log.Fatalf("Failed to grab image ID")
             proc' = "exit1" /\ UNCHANGED <<grabID, mainPc>>
          \/ /\ grabID' \in Histories
             /\ mainPc' = "assign"
             /\ proc' = proc
     ELSE IF baseImage # "" /\ baseLayer # ""
     THEN \* log.Fatalln("Both base-image and base-layer-id flag")
          proc' = "exit1" /\ UNCHANGED <<grabID, mainPc>>
     ELSE mainPc' = "register" /\ UNCHANGED <<grabID, proc>>
  /\ UNCHANGED <<flags, sharedVars, monVars, handler>>

\* main, lines 462-463: *baseLayer = grabID[0].ID; on an empty list the
\* index is out of range.  grabID goes out of scope at line 464.
assignBaseLayer ==
  /\ proc = "running" /\ mainPc = "assign"
  /\ IF grabID = <<>>
     THEN proc' = "panic" /\ UNCHANGED <<baseLayer, mainPc, grabID>>
     ELSE /\ baseLayer' = grabID[1].ID
          /\ grabID' = <<>>
          /\ mainPc' = "register"
          /\ proc' = proc
  /\ UNCHANGED <<username, password, registryHost, repository, baseImage,
                 testInterval, awsAccessKey, sharedVars, monVars, handler>>

\* main, lines 468-481: prometheus.Register of the four collectors and the
\* registration of the handlers.
register ==
  /\ proc = "running" /\ mainPc = "register"
  /\ \E ok \in BOOLEAN :
       IF ok THEN mainPc' = "runMonitor" /\ proc' = proc
       ELSE proc' = "exit1" /\ mainPc' = mainPc
  /\ UNCHANGED <<flags, grabID, sharedVars, monVars, handler>>

\* The hard-coded start value of duration, line 548.
InitialDuration == 120
\* The retry interval after a transient failure, lines 578 and 613.
RetryDuration == 30

\* The mutant of runMonitor: duration starts at the retry interval.
runMonitorShortStart ==
  /\ proc = "running" /\ mainPc = "runMonitor"
  /\ firstLoop' = TRUE
  /\ healthy' = TRUE
  /\ duration' = RetryDuration
  /\ pc' = "Setup"
  /\ mainPc' = "serve"
  /\ UNCHANGED <<flags, proc, grabID, status, userDuration,
                 cloudwatchService, base, ret, lastSleep, promSuccessMetric,
                 promFailureMetric, stepVars, handler>>

\* runMonitor, lines 545-549 and 629: the locals, healthy = true, and the
\* launch of mainLoop; main goes on to http.ListenAndServe.
runMonitor ==
  /\ proc = "running" /\ mainPc = "runMonitor"
  /\ firstLoop' = TRUE
  /\ healthy' = TRUE
  /\ duration' = InitialDuration
  /\ pc' = "Setup"
  /\ mainPc' = "serve"
  /\ UNCHANGED <<flags, proc, grabID, status, userDuration,
                 cloudwatchService, base, ret, lastSleep, promSuccessMetric,
                 promFailureMetric, stepVars, handler>>

\* main, line 488: http.ListenAndServe; on an error log.Fatal exits.
listenAndServe ==
  /\ proc = "running" /\ mainPc = "serve"
  /\ \E ok \in BOOLEAN :
       IF ok THEN mainPc' = "serving" /\ proc' = proc
       ELSE proc' = "exit1" /\ mainPc' = mainPc
  /\ UNCHANGED <<flags, grabID, sharedVars, monVars, handler>>

(* ---- the probe steps ------------------------------------------------------ *)
\* The mutant of deleteTopLayer: the test of the tag is missing (and the
\* list of images to remove is built with append), so the first entry of
\* the history is removed whatever its tags.
deleteTopLayerNoTagCheck(res, h) ==
  IF res.err THEN [out |-> "return", ret |-> FALSE, removes |-> <<>>]
  ELSE IF res.list # <<>>
  THEN [out |-> "return", ret |-> h, removes |-> <<res.list[1].ID>>]
  ELSE [out |-> "return", ret |-> h, removes |-> <<>>]

\* deleteTopLayer, lines 326-349.  res is what images.History returned.  The
\* first entry tagged "latest" reaches imagesToRemove[0] = image.ID, an index
\* into a nil slice: a run-time panic.  Without such an entry the function
\* returns the flag healthy (h).
deleteTopLayer(res, h) ==
  IF res.err THEN [out |-> "return", ret |-> FALSE, removes |-> <<>>]
  ELSE IF \E i \in 1..Len(res.list) : res.list[i].latest
  THEN [out |-> "panic", ret |-> FALSE, removes |-> <<>>]
  ELSE [out |-> "return", ret |-> h, removes |-> <<>>]

HistoryResults ==
  {[err |-> TRUE, list |-> <<>>]} \cup {[err |-> FALSE, list |-> l] : l \in Histories}

\* createTagLayer, lines 351-387.  fail names the engine call that fails:
\* CreateWithSpec and Start exit the process, Commit and Kill return false.
TagLayerFailures == {"none", "create", "commit", "start", "kill"}

\* The mutant of createTagLayer: a container-creation failure returns false
\* like a commit failure instead of ending the process.
createTagLayerCreateReturns(fail) ==
  CASE fail = "create" -> [out |-> "return", ret |-> FALSE]
    [] fail = "commit" -> [out |-> "return", ret |-> FALSE]
    [] fail = "start"  -> [out |-> "exit", ret |-> FALSE]
    [] fail = "kill"   -> [out |-> "return", ret |-> FALSE]
    [] OTHER           -> [out |-> "return", ret |-> TRUE]

createTagLayer(fail) ==
  CASE fail = "create" -> [out |-> "exit", ret |-> FALSE]
    [] fail = "commit" -> [out |-> "return", ret |-> FALSE]
    [] fail = "start"  -> [out |-> "exit", ret |-> FALSE]
    [] fail = "kill"   -> [out |-> "return", ret |-> FALSE]
    [] OTHER           -> [out |-> "return", ret |-> TRUE]

(* ---- the mainLoop goroutine ----------------------------------------------- *)
\* putCloudWatchMetric, lines 491-513: skipped without a service; else
\* PutMetricData succeeds or fails, and a failure is only logged.
PutOutcomes ==
  IF cloudwatchService = "nil" THEN {"skipped"} ELSE {"ok", "failed"}

putCloudWatchMetric == cwLast' \in PutOutcomes

\* The mutant of reportFailure: the failure counter is not incremented.
reportFailureNoCount ==
  /\ status' = FALSE
  /\ promFailureMetric' = promFailureMetric
  /\ putCloudWatchMetric

\* reportFailure, lines 525-533.
reportFailure ==
  /\ status' = FALSE
  /\ promFailureMetric' = promFailureMetric + 1
  /\ putCloudWatchMetric

\* The mutant of reportSuccess: a failed put makes the cycle count as failed
\* in status.
reportSuccessPutDecides ==
  /\ putCloudWatchMetric
  /\ status' = (cwLast' # "failed")
  /\ promSuccessMetric' = promSuccessMetric + 1

\* reportSuccess, lines 515-523.
reportSuccess ==
  /\ status' = TRUE
  /\ promSuccessMetric' = promSuccessMetric + 1
  /\ putCloudWatchMetric

\* reportPullTime, lines 540-543.
reportPullTime == putCloudWatchMetric

\* reportPushTime, lines 535-538: its put is followed by the put of
\* reportSuccess, so only the fact that it returns is kept.
reportPushTime == \E o \in PutOutcomes : o \in {"skipped", "ok", "failed"}

\* The mutant of TransientFailure: return instead of continue.
TransientFailureHalts ==
  /\ duration' = RetryDuration
  /\ reportFailure
  /\ pc' = "Halted"

\* The mutant of TransientFailure: the interval is left as it was.
TransientFailureNoBackoff ==
  /\ duration' = duration
  /\ reportFailure
  /\ pc' = "LoopTop"

\* Lines 578-580 and 613-615: a failed pull or push of the test image.
TransientFailure ==
  /\ duration' = RetryDuration
  /\ reportFailure
  /\ pc' = "LoopTop"

\* The mutant of StructuralFailure: continue instead of return.
StructuralFailureContinue ==
  /\ healthy' = FALSE
  /\ pc' = "LoopTop"

\* Lines 589-590, 600-601 and 606-607: healthy = false; return.
StructuralFailure ==
  /\ healthy' = FALSE
  /\ pc' = "Halted"

\* The mutant of Success: duration = userDuration is missing.
SuccessKeepsInterval ==
  /\ duration' = duration
  /\ reportSuccess
  /\ pc' = "LoopTop"

\* Lines 619-625: the cycle succeeded.
Success ==
  /\ reportPushTime
  /\ duration' = userDuration
  /\ reportSuccess
  /\ pc' = "LoopTop"

\* mainLoop, lines 550-561: the interval is parsed and the CloudWatch
\* service is created when the credentials are configured (the secret key
\* and the namespace are taken to be set whenever the access key is).
Setup ==
  /\ proc = "running" /\ pc = "Setup"
  /\ IF ParseDuration(testInterval).ok
     THEN /\ userDuration' = ParseDuration(testInterval).d
          /\ cloudwatchService' = IF awsAccessKey # "" THEN "svc" ELSE "nil"
          /\ pc' = "LoopTop"
          /\ proc' = proc
     ELSE \* log.Fatalf("Failed to parse time interval")
          /\ proc' = "exit1"
          /\ UNCHANGED <<userDuration, cloudwatchService, pc>>
  /\ UNCHANGED <<flags, mainPc, grabID, sharedVars, firstLoop, duration, base, ret,
                 lastSleep, promSuccessMetric, promFailureMetric, stepVars,
                 handler>>

\* The mutant of Sleep: the test of firstLoop is missing.
SleepOnFirstLoop ==
  /\ proc = "running" /\ pc = "LoopTop"
  /\ promSuccessMetric + promFailureMetric < MaxCycles
  /\ lastSleep' = duration
  /\ sleeps' = sleeps + 1
  /\ pc' = "CycleStart"
  /\ UNCHANGED <<flags, mainVars, sharedVars, firstLoop, duration,
                 userDuration, cloudwatchService, base, ret,
                 promSuccessMetric, promFailureMetric, imageHistory, removed,
                 tagErr, cwLast, handler>>

\* Lines 564-567: every cycle but the first is preceded by a sleep.
Sleep ==
  /\ proc = "running" /\ pc = "LoopTop"
  /\ promSuccessMetric + promFailureMetric < MaxCycles
  /\ lastSleep' = IF firstLoop THEN lastSleep ELSE duration
  /\ sleeps' = IF firstLoop THEN sleeps ELSE sleeps + 1
  /\ pc' = "CycleStart"
  /\ UNCHANGED <<flags, mainVars, sharedVars, firstLoop, duration,
                 userDuration, cloudwatchService, base, ret,
                 promSuccessMetric, promFailureMetric, imageHistory, removed,
                 tagErr, cwLast, handler>>

\* Lines 569-575: the cycle starts.
\* The mutant of CycleStart: the cycle starts without status = true.
CycleStartKeepsStatus ==
  /\ proc = "running" /\ pc = "CycleStart"
  /\ firstLoop' = FALSE
  /\ status' = status
  /\ cwLast' = "none"
  /\ pc' = "PullTest"
  /\ UNCHANGED <<flags, mainVars, healthy, duration, userDuration,
                 cloudwatchService, base, ret, lastSleep, promSuccessMetric,
                 promFailureMetric, imageHistory, removed, tagErr, sleeps,
                 handler>>

CycleStart ==
  /\ proc = "running" /\ pc = "CycleStart"
  /\ firstLoop' = FALSE
  /\ status' = TRUE
  /\ cwLast' = "none"
  /\ pc' = "PullTest"
  /\ UNCHANGED <<flags, mainVars, healthy, duration, userDuration,
                 cloudwatchService, base, ret, lastSleep, promSuccessMetric,
                 promFailureMetric, imageHistory, removed, tagErr, sleeps,
                 handler>>

\* The mutant of PullTest: the continue of line 580 is missing, so a failed
\* pull goes on with the rest of the cycle.
PullTestNoContinue ==
  /\ proc = "running" /\ pc = "PullTest"
  /\ \E ok \in BOOLEAN :
       /\ ret' = ok
       /\ IF baseImage # ""
          THEN pc' = "PullBase" /\ base' = base
          ELSE pc' = "DeleteLayer" /\ base' = baseLayer
       /\ IF ~ok
          THEN duration' = RetryDuration /\ reportFailure
          ELSE reportPullTime /\ UNCHANGED <<duration, status, promFailureMetric>>
  /\ UNCHANGED <<flags, mainVars, healthy, firstLoop, userDuration,
                 cloudwatchService, lastSleep, promSuccessMetric, imageHistory,
                 removed, tagErr, sleeps, handler>>

\* Lines 576-596: pullTestImage and the choice of the base.
PullTest ==
  /\ proc = "running" /\ pc = "PullTest"
  /\ \E ok \in BOOLEAN :
       /\ ret' = ok
       /\ IF ~ok
          THEN TransientFailure /\ base' = base
          ELSE /\ reportPullTime
               /\ IF baseImage # ""
                  THEN pc' = "PullBase" /\ base' = base
                  ELSE pc' = "DeleteLayer" /\ base' = baseLayer
               /\ UNCHANGED <<duration, status, promFailureMetric>>
  /\ UNCHANGED <<flags, mainVars, healthy, firstLoop, userDuration,
                 cloudwatchService, lastSleep, promSuccessMetric, imageHistory,
                 removed, tagErr, sleeps, handler>>

\* The mutant of PullBase: a failed pull of the base image is reported like
\* a failed pull of the test image before the loop returns.
PullBaseReportsFailure ==
  /\ proc = "running" /\ pc = "PullBase"
  /\ \E ok \in BOOLEAN :
       /\ ret' = ok
       /\ IF ~ok
          THEN StructuralFailure /\ reportFailure /\ base' = base
          ELSE /\ pc' = "DeleteLayer" /\ base' = baseImage /\ healthy' = healthy
               /\ UNCHANGED <<status, promFailureMetric, cwLast>>
  /\ UNCHANGED <<flags, mainVars, firstLoop, duration, userDuration,
                 cloudwatchService, lastSleep, promSuccessMetric,
                 imageHistory, removed, tagErr, sleeps, handler>>

\* Lines 586-593: pullBaseImage, only reached with a base image.
PullBase ==
  /\ proc = "running" /\ pc = "PullBase"
  /\ \E ok \in BOOLEAN :
       /\ ret' = ok
       /\ IF ~ok
          THEN StructuralFailure /\ base' = base
          ELSE pc' = "DeleteLayer" /\ base' = baseImage /\ healthy' = healthy
  /\ UNCHANGED <<flags, mainVars, status, firstLoop, duration, userDuration,
                 cloudwatchService, lastSleep, promSuccessMetric,
                 promFailureMetric, stepVars, handler>>

\* Lines 598-599 and 327-328: deleteTopLayer is entered and images.History
\* returns an error or the history of the base layer.
DeleteLayer ==
  /\ proc = "running" /\ pc = "DeleteLayer"
  /\ imageHistory' \in HistoryResults
  /\ pc' = "DeleteScan"
  /\ UNCHANGED <<flags, mainVars, sharedVars, firstLoop, duration,
                 userDuration, cloudwatchService, base, ret, lastSleep,
                 promSuccessMetric, promFailureMetric, removed, tagErr, sleeps,
                 cwLast, handler>>

\* Lines 329-349 and 599-602: the scan of the history, the removal, and
\* the branch on the result of deleteTopLayer.
DeleteScan ==
  /\ proc = "running" /\ pc = "DeleteScan"
  /\ LET r == deleteTopLayer(imageHistory, healthy) IN
       /\ removed' = removed \o r.removes
       /\ imageHistory' = NoHistory
       /\ IF r.out = "panic"
          THEN proc' = "panic" /\ UNCHANGED <<healthy, pc, ret>>
          ELSE /\ ret' = r.ret
               /\ proc' = proc
               /\ IF ~r.ret THEN StructuralFailure
                  ELSE pc' = "TagLayer" /\ healthy' = healthy
  /\ UNCHANGED <<flags, mainPc, grabID, status, firstLoop, duration, userDuration,
                 cloudwatchService, base, lastSleep, promSuccessMetric,
                 promFailureMetric, tagErr, sleeps, cwLast, handler>>

\* Lines 604-608.
TagLayer ==
  /\ proc = "running" /\ pc = "TagLayer"
  /\ \E fail \in TagLayerFailures :
       LET r == createTagLayer(fail) IN
         /\ tagErr' = fail
         /\ IF r.out = "exit"
            THEN proc' = "exit1" /\ UNCHANGED <<healthy, pc, ret>>
            ELSE /\ ret' = r.ret
                 /\ proc' = proc
                 /\ IF ~r.ret THEN StructuralFailure
                    ELSE pc' = "PushTest" /\ healthy' = healthy
  /\ UNCHANGED <<flags, mainPc, grabID, status, firstLoop, duration, userDuration,
                 cloudwatchService, base, lastSleep, promSuccessMetric,
                 promFailureMetric, imageHistory, removed, sleeps, cwLast,
                 handler>>

\* Lines 610-625: pushTestImage and the outcome of the cycle.
PushTest ==
  /\ proc = "running" /\ pc = "PushTest"
  /\ \E ok \in BOOLEAN :
       /\ ret' = ok
       /\ IF ~ok
          THEN TransientFailure /\ promSuccessMetric' = promSuccessMetric
          ELSE Success /\ promFailureMetric' = promFailureMetric
  /\ UNCHANGED <<flags, mainVars, healthy, firstLoop, userDuration,
                 cloudwatchService, base, lastSleep, imageHistory, removed,
                 tagErr, sleeps, handler>>

\* The mutant of mainLoop: the loop is started again after it returned.
mainLoopRestarted ==
  \/ Setup \/ Sleep \/ CycleStart \/ PullTest \/ PullBase \/ DeleteLayer
  \/ DeleteScan \/ TagLayer \/ PushTest
  \/ /\ proc = "running" /\ pc = "Halted"
     /\ healthy' = TRUE
     /\ pc' = "LoopTop"
     /\ UNCHANGED <<flags, mainVars, status, firstLoop, duration, userDuration,
                    cloudwatchService, base, ret, lastSleep,
                    promSuccessMetric, promFailureMetric, stepVars, handler>>

\* The goroutine launched at line 629.
mainLoop ==
  \/ Setup \/ Sleep \/ CycleStart \/ PullTest \/ PullBase \/ DeleteLayer
  \/ DeleteScan \/ TagLayer \/ PushTest

(* ---- the HTTP handlers ----------------------------------------------------- *)
\* fmt.Fprintf(w, "%t", b).
FormatBool(b) == IF b THEN "true" ELSE "false"

\* healthHandler, lines 106-108: the first read of healthy chooses the
\* status code (200 unless WriteHeader(503) is called).
healthHandlerCheck(h) ==
  /\ proc = "running" /\ mainPc = "serving"
  /\ handler[h].pc = "idle"
  /\ handler' = [handler EXCEPT ![h] =
       [pc |-> "health110",
        resp |-> [path |-> "/health",
                  code |-> IF ~healthy THEN 503 ELSE 200,
                  body |-> ""]]]
  /\ UNCHANGED <<flags, mainVars, sharedVars, monVars>>

\* healthHandler, line 110: the second read of healthy is the body.
healthHandlerWrite(h) ==
  /\ proc = "running"
  /\ handler[h].pc = "health110"
  /\ handler' = [handler EXCEPT ![h].pc = "idle",
                                ![h].resp.body = FormatBool(healthy)]
  /\ UNCHANGED <<flags, mainVars, sharedVars, monVars>>

\* statusHandler, lines 114-116.
statusHandlerCheck(h) ==
  /\ proc = "running" /\ mainPc = "serving"
  /\ handler[h].pc = "idle"
  /\ handler' = [handler EXCEPT ![h] =
       [pc |-> "status118",
        resp |-> [path |-> "/status",
                  code |-> IF ~status THEN 400 ELSE 200,
                  body |-> ""]]]
  /\ UNCHANGED <<flags, mainVars, sharedVars, monVars>>

\* statusHandler, line 118.
statusHandlerWrite(h) ==
  /\ proc = "running"
  /\ handler[h].pc = "status118"
  /\ handler' = [handler EXCEPT ![h].pc = "idle",
                                ![h].resp.body = FormatBool(status)]
  /\ UNCHANGED <<flags, mainVars, sharedVars, monVars>>

Next ==
  \/ initPodman \/ ParseFlags \/ validate \/ assignBaseLayer \/ register
  \/ runMonitor
  \/ listenAndServe
  \/ mainLoop
  \/ \E h \in Handlers :
       \/ healthHandlerCheck(h) \/ healthHandlerWrite(h)
       \/ statusHandlerCheck(h) \/ statusHandlerWrite(h)

Spec == Init /\ [][Next]_vars

\* Line 629: mainLoop runs in a goroutine of its own, which the Go scheduler
\* keeps running: its sleep (line 566) ends and its calls return.
FairSpec == Spec /\ WF_vars(mainLoop)

(* ---- properties ------------------------------------------------------------ *)
\* The steps of a cycle that fail structurally and those that fail
\* transiently.
StructuralSteps == {"PullBase", "DeleteLayer", "DeleteScan", "TagLayer"}
TransientSteps == {"PullTest", "PushTest"}

\* The interval the operator configured.
Configured == ParseDuration(testInterval).d

\* C1: once mainLoop has been launched (handlers are served only after
\* that), a step taken while healthy is false leaves healthy false.
HealthMonotonic ==
  [][(pc # "NotStarted" /\ ~healthy) => ~healthy']_vars

\* C1 witness: the loop has halted, healthy is false and /health has
\* answered 503 "false".
HealthObservedFalse ==
  /\ pc = "Halted" /\ ~healthy
  /\ \E h \in Handlers :
       handler[h].resp = [path |-> "/health", code |-> 503, body |-> "false"]

\* C2: a step PullBase, DeleteLayer or TagLayer whose function returns false
\* sets healthy to false and halts the loop, and a halted loop takes no
\* further step: its position, its locals and healthy stay as they are.
StructuralFailureHalts ==
  [][ /\ (pc \in StructuralSteps /\ pc' # pc /\ ~ret')
          => (~healthy' /\ pc' = "Halted")
      /\ pc = "Halted"
          => (pc' = "Halted" /\ ~healthy /\ ~healthy' /\ UNCHANGED monVars)
    ]_vars

\* C2 witness: the loop halted on a failed DeleteLayer or TagLayer step
\* after the base image had been pulled, the process is still running and a
\* handler has answered 503.
HaltedAfterStructuralFailure ==
  /\ pc = "Halted" /\ ~ret /\ ~healthy /\ base # "" /\ base = baseImage
  /\ proc = "running"
  /\ \E h \in Handlers : handler[h].resp.code = 503

\* C3: when the loop is back at its top after a push that succeeded, the
\* interval is the configured one and status and healthy are true.
SuccessState ==
  (pc = "LoopTop" /\ ~firstLoop /\ ret)
    => (duration = Configured /\ status /\ healthy)

\* C3 witness: a success that followed a transient failure, with a
\* configured interval that differs from the start value.
SuccessAfterFailure ==
  /\ pc = "LoopTop" /\ ~firstLoop /\ ret
  /\ promSuccessMetric = 1 /\ promFailureMetric = 1
  /\ Configured # InitialDuration

\* C4: a PullTest or PushTest step whose function returns false leads to
\* the top of the loop with the interval at 30s and status false, and
\* leaves healthy as it was.
TransientFailureState ==
  [][(pc \in TransientSteps /\ pc' # pc /\ ~ret')
       => (pc' = "LoopTop" /\ duration' = 30 /\ ~status'
           /\ healthy' = healthy)]_vars

\* C4 witness: a push failed after a success had set the configured interval.
TransientFailureSeen ==
  /\ pc = "LoopTop" /\ ~firstLoop /\ ~ret /\ duration = 30 /\ ~status
  /\ healthy /\ promSuccessMetric = 1 /\ promFailureMetric = 1
  /\ base # ""

\* C5: every completed /health response is 200 "true" or 503 "false".
HealthResponseConsistent ==
  \A h \in Handlers :
    (handler[h].resp.path = "/health" /\ handler[h].resp.body # "")
      => \/ handler[h].resp.code = 200 /\ handler[h].resp.body = "true"
         \/ handler[h].resp.code = 503 /\ handler[h].resp.body = "false"

\* C6: every completed /status response is 200 "true" or 400 "false".
StatusResponseConsistent ==
  \A h \in Handlers :
    (handler[h].resp.path = "/status" /\ handler[h].resp.body # "")
      => \/ handler[h].resp.code = 200 /\ handler[h].resp.body = "true"
         \/ handler[h].resp.code = 400 /\ handler[h].resp.body = "false"

\* How each shared flag is declared (lines 58-59): a plain bool, with no
\* atomic type, mutex or channel around its accesses.
Synchronization == [healthy |-> "none", status |-> "none"]

\* The flags the next step of mainLoop writes (status at lines 571, 516 and
\* 526; healthy at lines 589, 600 and 606, when the step fails).
mainLoopWrites ==
  IF proc # "running" THEN {}
  ELSE IF pc \in {"CycleStart", "PullTest", "PushTest"} THEN {"status"}
  ELSE IF pc \in {"PullBase", "DeleteScan", "TagLayer"} THEN {"healthy"}
  ELSE {}

\* The flag the next step of handler h reads (lines 110 and 118).
handlerReads(h) ==
  IF proc # "running" THEN {}
  ELSE IF handler[h].pc = "health110" THEN {"healthy"}
  ELSE IF handler[h].pc = "status118" THEN {"status"}
  ELSE {}

\* C7: in no state is a handler about to read a flag that mainLoop is about
\* to write, unless a synchronization primitive orders the two accesses.
NoDataRace ==
  \A h \in Handlers : \A f \in handlerReads(h) :
    f \in mainLoopWrites => Synchronization[f] # "none"

\* The position that follows position p when the step function returned r.
NextStep(p, r) ==
  CASE p = "Setup"       -> "LoopTop"
    [] p = "LoopTop"     -> "CycleStart"
    [] p = "CycleStart"  -> "PullTest"
    [] p = "PullTest"    -> IF ~r THEN "LoopTop"
                            ELSE IF baseImage # "" THEN "PullBase"
                            ELSE "DeleteLayer"
    [] p = "PullBase"    -> IF r THEN "DeleteLayer" ELSE "Halted"
    [] p = "DeleteLayer" -> "DeleteScan"
    [] p = "DeleteScan"  -> IF r THEN "TagLayer" ELSE "Halted"
    [] p = "TagLayer"    -> IF r THEN "PushTest" ELSE "Halted"
    [] p = "PushTest"    -> "LoopTop"
    [] OTHER             -> p

\* C8: the loop moves only to the step that follows in the order PullTest,
\* PullBase (exactly when a base image is configured), DeleteLayer, TagLayer,
\* PushTest, and only when the step before returned true; a failed PullTest
\* leads to the top of the loop, and a cycle starts only from there, after
\* the sleep of every cycle but the first.
StepOrder ==
  [][ /\ (pc # "NotStarted" /\ pc' # pc)
          => /\ pc' = NextStep(pc, ret')
             /\ (pc' \in {"PullBase", "DeleteLayer", "DeleteScan", "TagLayer",
                          "PushTest"} => ret')
      /\ (pc = "LoopTop" /\ pc' # pc /\ ~firstLoop) => lastSleep' = duration
    ]_vars

\* C8 witness: the PullTest of the second cycle, after a first cycle whose
\* PullTest failed (no base was chosen, no push counted) and a 30s sleep.
SecondCycleAfterFailedPull ==
  /\ pc = "PullTest" /\ promFailureMetric = 1 /\ promSuccessMetric = 0
  /\ base = "" /\ lastSleep = 30 /\ ~ret

\* The states from the launch of mainLoop until the first cycle has recorded
\* its outcome.
FirstCyclePending ==
  /\ pc \notin {"NotStarted", "Halted"}
  /\ promSuccessMetric = 0 /\ promFailureMetric = 0

\* C9 as stated: until the first cycle has recorded its outcome the interval
\* is the configured one.
IntervalStartsConfigured ==
  (FirstCyclePending /\ ParseDuration(testInterval).ok)
    => duration = Configured

\* C9 as amended: until the first cycle has recorded its outcome the
\* interval is the hard-coded 120s, whatever was configured.
IntervalStartsAtDefault ==
  FirstCyclePending => duration = 120

\* C9 witness: the push of the first cycle with a configured interval of 5m.
FirstCycleWithOtherInterval ==
  /\ FirstCyclePending /\ pc = "PushTest"
  /\ ParseDuration(testInterval).ok /\ Configured = 300

\* The configuration the orchestrator may run with.
ValidConfig ==
  /\ username # "" /\ password # "" /\ registryHost # "" /\ repository # ""
  /\ (baseImage = "") # (baseLayer = "")

\* C10: main gets past the validation, and mainLoop runs, only with the four
\* required flags set and exactly one base selector non-empty; when neither
\* selector was given, base-layer-id becomes the ID of the first entry of
\* the history read from the repository.
StartupValidation ==
  [][ /\ (mainPc' \notin {"init", "parse", "validate", "assign"}
           \/ pc' # "NotStarted") => ValidConfig'
      /\ (mainPc = "assign" /\ mainPc' # mainPc)
           => (baseLayer = "" /\ baseImage = ""
               /\ baseLayer' = grabID[1].ID /\ baseImage' = "")
    ]_vars

\* C10 witness: a probe step runs with a base layer that was resolved from
\* the history.
RunsWithResolvedLayer ==
  /\ pc = "PullTest" /\ baseImage = "" /\ baseLayer \in HistoryIDs

\* The history has an entry tagged "latest".
HasLatest(res) ==
  ~res.err /\ \E i \in 1..Len(res.list) : res.list[i].latest

\* The first entry of the list that is tagged "latest".
FirstLatest(list) ==
  list[CHOOSE i \in 1..Len(list) :
         list[i].latest /\ \A j \in 1..(i - 1) : ~list[j].latest]

\* C11: when the history read by deleteTopLayer has an entry tagged
\* "latest", the scan issues exactly one Remove call, for the ID of the first
\* such entry, the process keeps running, and when the step reports success
\* the loop moves to TagLayer with healthy true.
RemovesFirstLatest ==
  [][(pc = "DeleteScan" /\ HasLatest(imageHistory)
        /\ imageHistory' # imageHistory)
       => /\ removed' = Append(removed, FirstLatest(imageHistory.list).ID)
          /\ proc' = "running"
          /\ ret' => (pc' = "TagLayer" /\ healthy')]_vars

\* C12: when History succeeded and no entry is tagged "latest", the scan
\* issues no Remove call and deleteTopLayer returns true: the loop moves to
\* TagLayer, healthy stays true and the process keeps running.
NoLatestIsNoOp ==
  [][(pc = "DeleteScan" /\ ~imageHistory.err /\ ~HasLatest(imageHistory)
        /\ pc' # pc)
       => /\ removed' = removed
          /\ ret' /\ pc' = "TagLayer"
          /\ healthy /\ healthy'
          /\ proc' = "running"]_vars

\* C12 witness: a first cycle that ended in Success without any Remove call
\* (its history had no entry tagged "latest", or the scan would have
\* panicked).
SuccessWithoutRemove ==
  /\ pc = "LoopTop" /\ ret /\ status /\ healthy
  /\ promSuccessMetric = 1 /\ promFailureMetric = 0
  /\ removed = <<>> /\ tagErr = "none"

\* C13: a commit, start or kill failure inside the TagLayer step is a
\* structural failure: healthy becomes false, the orchestrator is Halted and
\* the process stays alive.
TagLayerFailureHalts ==
  [][(pc = "TagLayer" /\ tagErr' \in {"commit", "start", "kill"})
       => (~healthy' /\ pc' = "Halted" /\ proc' = "running")]_vars

\* C14: a container-creation failure inside TagLayer ends the process at
\* once, with healthy still true and the orchestrator not Halted; and once
\* the process has ended nothing happens any more (no probe step, no HTTP
\* response).
CreateFailureExits ==
  [][/\ (pc = "TagLayer" /\ tagErr' = "create")
          => (proc' = "exit1" /\ healthy /\ healthy' /\ pc' # "Halted")
     /\ (proc # "running") => UNCHANGED vars]_vars

\* C14 witness: the process has exited on a container-creation failure,
\* healthy still true.
ExitedOnCreateFailure ==
  proc = "exit1" /\ pc = "TagLayer" /\ tagErr = "create" /\ healthy

\* The positions of mainLoop inside a cycle, after the cycle's start.
CycleSteps ==
  {"PullTest", "PullBase", "DeleteLayer", "DeleteScan", "TagLayer", "PushTest"}

\* C15: the start of a cycle sets status to true before PullTest; status
\* goes from true to false only in a failing PullTest or PushTest; status is
\* true at every position inside a cycle, and still true when the cycle has
\* ended in Success.
StatusPerCycle ==
  [][/\ (pc = "CycleStart" /\ pc' # pc) => (status' /\ pc' = "PullTest")
     /\ (status /\ ~status')
          => (pc \in TransientSteps /\ ~ret' /\ pc' = "LoopTop")
     /\ (pc' \in CycleSteps) => status'
     /\ (pc = "PushTest" /\ pc' = "LoopTop" /\ ret') => (status /\ status')]_vars

\* C15 witness: a cycle that follows a failed one has started, and status is
\* true again.
StatusResetAfterFailure ==
  /\ pc = "PullTest" /\ status /\ sleeps = 1
  /\ promFailureMetric = 1 /\ promSuccessMetric = 0

\* C16: a PullTest or PushTest step never leads to Halted (Halted is entered
\* from the structural steps only, and a failed pull or push ends at the top
\* of the loop); and under weak fairness of mainLoop, whenever the loop is at
\* its top, after a failure or a success, with cycles left to model, a new
\* cycle reaches PullTest unless the process ends.
TransientFailuresKeepProbing ==
  /\ [][/\ (pc \in TransientSteps /\ pc' # pc)
             => (pc' # "Halted" /\ healthy' = healthy)
        /\ (pc \in TransientSteps /\ pc' # pc /\ ~ret') => pc' = "LoopTop"
        /\ (pc # "Halted" /\ pc' = "Halted") => pc \in StructuralSteps]_vars
  /\ (/\ pc = "LoopTop" /\ proc = "running"
      /\ promSuccessMetric + promFailureMetric < MaxCycles)
       ~> (pc = "PullTest" \/ proc # "running")

\* C16 witness: the cycle after a failed push has reached PullTest.
RetryAfterFailedPush ==
  /\ pc = "PullTest" /\ proc = "running" /\ healthy
  /\ promFailureMetric = 1 /\ promSuccessMetric = 0
  /\ base # "" /\ lastSleep = RetryDuration

\* C17: the sleep before the first cycle is skipped; the sleep before every
\* later cycle lasts 30s after a transient failure and the configured
\* interval after a Success, and nothing else sleeps; at every position of a
\* cycle the number of sleeps so far is the number of cycles before it, one
\* sleep per later cycle.
SleepBetweenCycles ==
  [][/\ (pc = "LoopTop" /\ pc' = "CycleStart" /\ firstLoop)
          => (sleeps = 0 /\ sleeps' = 0 /\ lastSleep' = lastSleep)
     /\ (pc = "LoopTop" /\ pc' = "CycleStart" /\ ~firstLoop)
          => /\ sleeps' = sleeps + 1
             /\ lastSleep' = IF ret THEN Configured ELSE RetryDuration
     /\ (sleeps' # sleeps \/ lastSleep' # lastSleep)
          => (pc = "LoopTop" /\ pc' = "CycleStart")
     /\ (pc' \in CycleSteps \cup {"CycleStart"})
          => sleeps' = promSuccessMetric' + promFailureMetric']_vars

\* C17 witness: the cycle after a Success has started after one sleep of the
\* configured interval, which is neither 120s nor 30s.
SleptConfiguredInterval ==
  /\ pc = "PullTest" /\ sleeps = 1 /\ promSuccessMetric = 1
  /\ lastSleep = Configured /\ Configured \notin {InitialDuration, RetryDuration}

\* C18: a cycle that ends in Success adds exactly 1 to the success counter
\* and nothing to the failure counter; a failed PullTest or PushTest adds
\* exactly 1 to the failure counter and nothing to the success counter; a
\* step that halts the orchestrator or ends the process changes neither, and
\* no other step changes a counter; so the sum of the counters is the number
\* of cycles that came back to the top of the loop.
CountersTrackOutcomes ==
  [][/\ (pc = "PushTest" /\ pc' = "LoopTop" /\ ret')
          => /\ promSuccessMetric' = promSuccessMetric + 1
             /\ promFailureMetric' = promFailureMetric
     /\ (pc \in TransientSteps /\ pc' = "LoopTop" /\ ~ret')
          => /\ promFailureMetric' = promFailureMetric + 1
             /\ promSuccessMetric' = promSuccessMetric
     /\ (pc' = "Halted" \/ proc' # "running")
          => /\ promSuccessMetric' = promSuccessMetric
             /\ promFailureMetric' = promFailureMetric
     /\ (promSuccessMetric' # promSuccessMetric
           \/ promFailureMetric' # promFailureMetric)
          => (pc \in TransientSteps /\ pc' = "LoopTop")
     /\ (pc' = "LoopTop" /\ ~firstLoop')
          => promSuccessMetric' + promFailureMetric' = sleeps' + 1
     /\ (pc' = "Halted")
          => promSuccessMetric' + promFailureMetric' = sleeps']_vars

\* C18 witness: a Success, then a cycle that halted on a structural failure:
\* one cycle counted, one not.
HaltedCycleNotCounted ==
  /\ pc = "Halted" /\ ~healthy /\ sleeps = 1
  /\ promSuccessMetric = 1 /\ promFailureMetric = 0

\* C19: in every step that emits a metric (PullTest and PushTest), the next
\* position of the loop and the next values of healthy, status, the interval
\* and the counters are given by the step and its result alone, whatever the
\* outcome of the put (ok, failed or skipped), and the process keeps running.
PutOutcomeAbsorbed ==
  [][(pc \in TransientSteps /\ pc' # pc)
       => /\ cwLast' \in PutOutcomes
          /\ proc' = proc /\ healthy' = healthy
          /\ ~ret'
               => /\ pc' = "LoopTop" /\ ~status'
                  /\ duration' = RetryDuration
                  /\ promFailureMetric' = promFailureMetric + 1
                  /\ promSuccessMetric' = promSuccessMetric
          /\ (ret' /\ pc = "PullTest")
               => /\ pc' = IF baseImage # "" THEN "PullBase" ELSE "DeleteLayer"
                  /\ status' = status /\ duration' = duration
                  /\ promFailureMetric' = promFailureMetric
                  /\ promSuccessMetric' = promSuccessMetric
          /\ (ret' /\ pc = "PushTest")
               => /\ pc' = "LoopTop" /\ status'
                  /\ duration' = userDuration
                  /\ promSuccessMetric' = promSuccessMetric + 1
                  /\ promFailureMetric' = promFailureMetric]_vars

\* C19 witness: a cycle ended in Success although the put of its success
\* metric failed.
SuccessWithFailedPut ==
  /\ pc = "LoopTop" /\ cwLast = "failed" /\ ret /\ status /\ healthy
  /\ promSuccessMetric = 1 /\ duration = userDuration

\* C20: while the orchestrator is Halted no step writes healthy or status,
\* healthy is false and status is true, and the orchestrator stays Halted; a
\* request that begins then gets 503 on /health and 200 on /status, a
\* /health body written then is "false" and a /status body "true".
HaltedFreezesFlags ==
  [][pc = "Halted"
       => /\ pc' = "Halted"
          /\ ~healthy /\ ~healthy' /\ status /\ status'
          /\ \A h \in Handlers :
               /\ (handler[h].pc = "idle" /\ handler'[h].pc # "idle")
                    => handler'[h].resp \in
                         {[path |-> "/health", code |-> 503, body |-> ""],
                          [path |-> "/status", code |-> 200, body |-> ""]}
               /\ (handler[h].pc = "health110" /\ handler'[h].pc = "idle")
                    => /\ handler'[h].resp.body = "false"
                       /\ handler[h].resp.code = 503
                            => handler'[h].resp =
                                 [path |-> "/health", code |-> 503,
                                  body |-> "false"]
               /\ (handler[h].pc = "status118" /\ handler'[h].pc = "idle")
                    => handler'[h].resp.body = "true"]_vars

\* C20 witness: the orchestrator is Halted in the cycle after a failed one
\* (status was false before that cycle began) and /status has answered
\* 200 "true".
HaltedStatusStillTrue ==
  /\ pc = "Halted" /\ ~healthy /\ status /\ promFailureMetric = 1
  /\ \E h \in Handlers :
       /\ handler[h].pc = "idle"
       /\ handler[h].resp = [path |-> "/status", code |-> 200, body |-> "true"]
====
